---- MODULE Spec2Model ----
(***************************************************************************)
(* Catzilla request dispatch (python/catzilla/app.py): the registries of   *)
(* the application object, the dispatcher _handle_request and the error    *)
(* resolver _handle_exception.                                             *)
(*                                                                         *)
(* One call of _handle_request is one step.  What user callbacks do (the   *)
(* value a handler returns, or the exception it raises) is an input of the *)
(* step; the step records which callbacks were invoked, with what, and     *)
(* every response handed to send.                                          *)
(***************************************************************************)
EXTENDS Integers, Sequences, FiniteSets, TLC

\* Bounds of the model.
MaxHandlers == 2        \* per-type exception handlers registered
MaxRoutes == 2          \* routes registered
MaxMiddleware == 3      \* global pre-route middleware registered
MaxWorkers == 3         \* worker threads that deliver requests

Methods == {"GET", "POST", "DELETE"}
RoutePaths == {"/a"}

\* A raw request path is a sequence of pieces; "?" starts the query string.
RawPaths == { <<"/a">>, <<"/a", "?", "q=1">>, <<"/b">> }

\* request.content_type: absent, on the allow-list, off the allow-list.
NoContentType == "None"
ContentTypes == {NoContentType, "application/json", "application/xml"}

\* Exception kinds and their base class.
ExcTypes == {"Exception", "LookupError", "KeyError", "TypeError"}

Base(kind) ==
    CASE kind = "KeyError" -> "LookupError"
      [] kind = "LookupError" -> "Exception"
      [] kind = "TypeError" -> "Exception"
      [] kind = "AttributeError" -> "Exception"
      [] kind = "OSError" -> "Exception"
      [] OTHER -> "object"

RECURSIVE Mro(_)
Mro(kind) == IF kind = "object" THEN <<>> ELSE <<kind>> \o Mro(Base(kind))

Range(s) == { s[i] : i \in 1..Len(s) }

IsInstance(exception, exc_type) == exc_type \in Range(Mro(exception.kind))

NoExc == [kind |-> "None", msg |-> <<>>]

\* Letters of the method names (A = 1), for string comparison.
MethodChars(m) ==
    CASE m = "GET" -> <<7, 5, 20>>
      [] m = "POST" -> <<16, 15, 19, 20>>
      [] m = "DELETE" -> <<4, 5, 12, 5, 20, 5>>
      [] m = "PUT" -> <<16, 21, 20>>
      [] OTHER -> <<>>

RECURSIVE LexLess(_, _)
LexLess(a, b) ==
    IF b = <<>> THEN FALSE
    ELSE IF a = <<>> THEN TRUE
    ELSE IF a[1] /= b[1] THEN a[1] < b[1]
    ELSE LexLess(Tail(a), Tail(b))

StrLess(x, y) == LexLess(MethodChars(x), MethodChars(y))

\* sorted(allowed_methods)
RECURSIVE Sorted(_)
Sorted(S) ==
    IF S = {} THEN <<>>
    ELSE LET least == CHOOSE x \in S : \A y \in S \ {x} : StrLess(x, y)
         IN <<least>> \o Sorted(S \ {least})

\* sep.join(parts)
RECURSIVE Join(_, _)
Join(sep, parts) ==
    IF Len(parts) = 0 THEN <<>>
    ELSE IF Len(parts) = 1 THEN <<parts[1]>>
    ELSE <<parts[1], sep>> \o Join(sep, Tail(parts))

\* The path handed on whole, the query string included.
WholePath(path) == path

\* path.split("?", 1)[0] if "?" in path else path
RECURSIVE BasePath(_)
BasePath(path) ==
    IF path = <<>> \/ path[1] = "?" THEN <<>>
    ELSE <<path[1]>> \o BasePath(Tail(path))

(***************************************************************************)
(* Responses.  A body and a header value are sequences of text pieces.     *)
(***************************************************************************)
Response(status_code, content_type, body, headers) ==
    [status |-> status_code, content_type |-> content_type,
     body |-> body, headers |-> headers]

NoResponse == Response(0, "", <<>>, {})

\* json.dumps of {"error": message}
ErrorJson(message) == <<"{\"error\": \"", message, "\"}">>

JSONResponse(body, status_code) ==
    Response(status_code, "application/json", body, {})

HTMLResponse(body) ==
    Response(200, "text/html; charset=utf-8", body, {})

HeaderNames(resp) == { h[1] : h \in resp.headers }

\* A value returned by a user callback: a Response, or something else.
Value(shape, resp) == [shape |-> shape, resp |-> resp]

VARIABLES
    production,              \* self.production
    exception_handlers,      \* keys of self._exception_handlers, insertion order
    internal_error_handler,  \* self._internal_error_handler is set
    not_found_handler,       \* self._not_found_handler is set
    routes,                  \* routes of self.router
    registration,            \* the last registration of a route, its result
    listening,               \* listen has been called
    global_pre,              \* global pre-route middleware, in running order
    global_post,             \* global post-route middleware, in running order
    per_route,               \* per-route middleware lists of the routes
    threads,                 \* worker threads: the step and request of each
    contexts,                \* the context maps of the Request objects
    context,                 \* the context of the request the handler sees
    request,                 \* the last request handled
    matched,                 \* its match result
    calls,                   \* user callbacks invoked for it, in order
    sent,                    \* responses handed to send for it, in order
    resolution,              \* its call of _handle_exception, if any
    raised,                  \* exception that left _handle_request, if any
    observed,                \* responses post-route middleware saw for it
    twin                     \* the same request as the other application
                             \* answered it

vars == <<production, exception_handlers, internal_error_handler,
          not_found_handler, routes, registration, listening, global_pre,
          global_post, per_route, threads, contexts, context, request,
          matched, calls, sent, resolution, raised, observed, twin>>

\* The post-route and per-route middleware and what post-route middleware
\* saw.
pipeline == <<global_post, per_route, observed>>

\* The worker threads and the Request objects they hold.
pool == <<threads, contexts>>

registries == <<production, exception_handlers, internal_error_handler,
                not_found_handler, routes>>

lastRequest == <<request, matched, calls, sent, resolution, raised>>

\* The keys of a request context; a key not written reads as unset.
ContextKeys == {"x", "y"}
EmptyContext == [k \in ContextKeys |-> "unset"]

\* Worker threads of the I/O layer, and the Request objects: one call of
\* _handle_request builds one.
Workers == 1..MaxWorkers
Objects == 0..MaxWorkers
IdleThread == [pc |-> "idle", object |-> 0, seen |-> "unset"]

NoRegistration ==
    [method |-> "", path |-> "", handler |-> "", overwrite |-> FALSE,
     error |-> "None"]

NoRequest ==
    [method |-> "", path |-> <<>>, content_type |-> NoContentType,
     path_params |-> {}]
NoMatch ==
    [route |-> FALSE, allowed |-> {},
     entry |-> [method |-> "", path |-> "", handler |-> ""], params |-> {}]
\* No request was answered by another application.
NoTwin ==
    [production |-> FALSE, request |-> NoRequest, calls |-> <<>>,
     sent |-> <<>>, raised |-> NoExc]
NoResolution == [called |-> FALSE, exception |-> NoExc,
                 ret |-> Value("None", NoResponse)]

Init ==
    /\ production \in BOOLEAN
    /\ exception_handlers = <<>>
    /\ internal_error_handler = FALSE
    /\ not_found_handler = FALSE
    /\ routes = {}
    /\ listening = FALSE
    /\ global_pre = <<>>
    /\ context = EmptyContext
    /\ request = NoRequest
    /\ matched = NoMatch
    /\ calls = <<>>
    /\ sent = <<>>
    /\ resolution = NoResolution
    /\ raised = NoExc
    /\ observed = <<>>
    /\ registration = NoRegistration
    /\ global_post = <<>>
    /\ per_route = {}
    /\ threads = [w \in Workers |-> IdleThread]
    /\ contexts = [o \in Objects |-> EmptyContext]
    /\ twin = NoTwin


\* No call of _handle_request and no registration of a route is under way:
\* their locals do not exist.
Idle == request = NoRequest /\ registration = NoRegistration

(***************************************************************************)
(* Registration.                                                           *)
(***************************************************************************)
\* self._exception_handlers[exception_type] = handler: a new key goes to the
\* end of the dict, a key already present keeps its place.
SetExceptionHandler(exception_type) ==
    /\ Idle
    /\ exception_type \in Range(exception_handlers)
          \/ Len(exception_handlers) < MaxHandlers
    /\ exception_handlers' =
          IF exception_type \in Range(exception_handlers)
          THEN exception_handlers
          ELSE Append(exception_handlers, exception_type)
    /\ UNCHANGED <<production, internal_error_handler, not_found_handler,
                   routes, lastRequest, listening, global_pre, context,
                   registration, pipeline, pool, twin>>

SetNotFoundHandler ==
    /\ Idle
    /\ not_found_handler' = TRUE
    /\ UNCHANGED <<production, exception_handlers, internal_error_handler,
                   routes, lastRequest, listening, global_pre, context,
                   registration, pipeline, pool, twin>>

SetInternalErrorHandler ==
    /\ Idle
    /\ internal_error_handler' = TRUE
    /\ UNCHANGED <<production, exception_handlers, not_found_handler,
                   routes, lastRequest, listening, global_pre, context,
                   registration, pipeline, pool, twin>>

\* listen(port, host): the server starts to deliver requests to
\* _handle_request.
Listen ==
    /\ Idle
    /\ ~listening
    /\ listening' = TRUE
    /\ UNCHANGED <<registries, lastRequest, global_pre, context,
                   registration, pipeline, pool, twin>>

(***************************************************************************)
(* The router: path patterns, insert, and the trie walk of match.          *)
(***************************************************************************)
\* The segments of a pattern: literal | {name} | {name:type} | *name.
Lit(text) == [kind |-> "literal", text |-> text, name |-> "", tag |-> ""]
Param(name, tag) == [kind |-> "param", text |-> "", name |-> name, tag |-> tag]
Wild(name) == [kind |-> "wildcard", text |-> "", name |-> name, tag |-> "path"]

\* A pattern split into its segments.
PatternSegments(pattern) ==
    CASE pattern = "/a" -> <<Lit("a")>>
      [] pattern = "/users/me" -> <<Lit("users"), Lit("me")>>
      [] pattern = "/users/{id}" -> <<Lit("users"), Param("id", "string")>>
      [] pattern = "/users/{id:int}" -> <<Lit("users"), Param("id", "int")>>
      [] pattern = "/users/*rest" -> <<Lit("users"), Wild("rest")>>
      [] pattern = "/files/*rest" -> <<Lit("files"), Wild("rest")>>
      [] OTHER -> <<Lit(pattern)>>

\* A piece of a path split on "/", the empty leading segment discarded.
Segments(piece) ==
    CASE piece = "/a" -> <<"a">>
      [] piece = "/b" -> <<"b">>
      [] piece = "/users/me" -> <<"users", "me">>
      [] piece = "/users/42" -> <<"users", "42">>
      [] piece = "/users/abc" -> <<"users", "abc">>
      [] piece = "/files/a/b" -> <<"files", "a", "b">>
      [] OTHER -> <<piece>>

RECURSIVE Split(_)
Split(base_path) ==
    IF base_path = <<>> THEN <<>>
    ELSE Segments(base_path[1]) \o Split(Tail(base_path))

\* The segments that pass the type tag int.
IntSegments == {"42"}

PassesTag(tag, segment) == tag = "int" => segment \in IntSegments

\* Children of a node with parameters before literals.
RankParameterFirst(seg) ==
    CASE seg.kind = "param" /\ seg.tag = "uuid" -> 0
      [] seg.kind = "param" /\ seg.tag = "int" -> 1
      [] seg.kind = "param" /\ seg.tag = "string" -> 2
      [] seg.kind = "param" -> 3
      [] seg.kind = "literal" -> 4
      [] OTHER -> 5

\* The place of a child among the children of its node: literal, then the
\* parameters by tag (uuid, int, string, path), then the wildcard.
Rank(seg) ==
    CASE seg.kind = "literal" -> 0
      [] seg.kind = "param" /\ seg.tag = "uuid" -> 1
      [] seg.kind = "param" /\ seg.tag = "int" -> 2
      [] seg.kind = "param" /\ seg.tag = "string" -> 3
      [] seg.kind = "param" -> 4
      [] OTHER -> 5

\* The trie holds a node for every prefix of a registered pattern.
Children(node) ==
    { SubSeq(PatternSegments(r.path), 1, Len(node) + 1) :
        r \in { q \in routes :
                  /\ Len(PatternSegments(q.path)) > Len(node)
                  /\ SubSeq(PatternSegments(q.path), 1, Len(node)) = node } }

RECURSIVE ByRank(_)
ByRank(nodes) ==
    IF nodes = {} THEN <<>>
    ELSE LET first == CHOOSE c \in nodes :
                          \A d \in nodes : Rank(c[Len(c)]) <= Rank(d[Len(d)])
         IN <<first>> \o ByRank(nodes \ {first})

NoRoute == [method |-> "", path |-> "", handler |-> ""]

Missed(allowed) ==
    [found |-> FALSE, route |-> NoRoute, params |-> {}, allowed |-> allowed]

\* The search that gives up at the first terminal it reaches.
RECURSIVE Walk(_, _, _, _)
RECURSIVE TryFirstTerminalOnly(_, _, _, _, _)
TryFirstTerminalOnly(children, rest, params, method, allowed) ==
    IF children = <<>> THEN Missed(allowed)
    ELSE LET c == children[1]
             seg == c[Len(c)]
             r == CASE seg.kind = "literal" ->
                         IF seg.text = rest[1]
                         THEN Walk(c, Tail(rest), params, method)
                         ELSE Missed({})
                    [] seg.kind = "param" ->
                         IF PassesTag(seg.tag, rest[1])
                         THEN Walk(c, Tail(rest),
                                   params \cup {<<seg.name, <<rest[1]>>>>},
                                   method)
                         ELSE Missed({})
                    [] OTHER ->
                         Walk(c, <<>>,
                              params \cup {<<seg.name, Join("/", rest)>>},
                              method)
         IN IF r.found \/ r.allowed /= {} THEN r
            ELSE TryFirstTerminalOnly(Tail(children), rest, params, method,
                                      allowed)

\* The children of a node tried in their order on the first segment of
\* rest: a literal child when it equals the segment, a parameter child when
\* the segment passes its tag, the wildcard child on all of rest.  The first
\* match ends the search; the methods of terminals without the method are
\* accumulated.
RECURSIVE Try(_, _, _, _, _)
Try(children, rest, params, method, allowed) ==
    IF children = <<>> THEN Missed(allowed)
    ELSE LET c == children[1]
             seg == c[Len(c)]
             r == CASE seg.kind = "literal" ->
                         IF seg.text = rest[1]
                         THEN Walk(c, Tail(rest), params, method)
                         ELSE Missed({})
                    [] seg.kind = "param" ->
                         IF PassesTag(seg.tag, rest[1])
                         THEN Walk(c, Tail(rest),
                                   params \cup {<<seg.name, <<rest[1]>>>>},
                                   method)
                         ELSE Missed({})
                    [] OTHER ->
                         Walk(c, <<>>,
                              params \cup {<<seg.name, Join("/", rest)>>},
                              method)
         IN IF r.found THEN r
            ELSE Try(Tail(children), rest, params, method,
                     allowed \cup r.allowed)

\* The depth-first walk from a node: with all segments consumed the node is
\* looked at as a terminal, else its children are tried.
Walk(node, rest, params, method) ==
    IF rest = <<>>
    THEN LET here == { r \in routes : PatternSegments(r.path) = node }
         IN IF \E r \in here : r.method = method
            THEN [found |-> TRUE,
                  route |-> CHOOSE r \in here : r.method = method,
                  params |-> params, allowed |-> {}]
            ELSE Missed({ r.method : r \in here })
    ELSE Try(ByRank(Children(node)), rest, params, method, {})

\* self.router.match(method, base_path): the route, the path parameters and
\* the allowed methods.
Match(method, base_path) ==
    LET w == Walk(<<>>, Split(base_path), {}, method)
    IN IF w.found
       THEN [route |-> TRUE, allowed |-> {}, entry |-> w.route,
             params |-> w.params]
       ELSE [route |-> FALSE, allowed |-> w.allowed, entry |-> NoRoute,
             params |-> {}]

\* insert with overwrite treated as set for every registration.
InsertAlwaysOverwrites(table, method, path, handler, overwrite) ==
    [routes |-> { r \in table : r.method /= method \/ r.path /= path }
                   \cup {[method |-> method, path |-> path,
                          handler |-> handler]},
     error |-> "None"]

\* insert(method, pattern, handler, overwrite): DuplicateRoute if the slot is
\* occupied and overwrite is false, else the route is installed in the slot.
RouterInsert(table, method, path, handler, overwrite) ==
    LET taken == { r \in table : r.method = method /\ r.path = path }
    IN IF taken /= {} /\ ~overwrite
       THEN [routes |-> table, error |-> "DuplicateRoute"]
       ELSE [routes |-> (table \ taken)
                           \cup {[method |-> method, path |-> path,
                                  handler |-> handler]},
             error |-> "None"]

\* self.router.route(path, [method], overwrite=overwrite)(handler)
Register(method, path, handler, overwrite) ==
    LET r == RouterInsert(routes, method, path, handler, overwrite)
    IN /\ Idle
       /\ Cardinality(r.routes) <= MaxRoutes
       /\ routes' = r.routes
       /\ registration' = [method |-> method, path |-> path,
                           handler |-> handler, overwrite |-> overwrite,
                           error |-> r.error]
       /\ UNCHANGED <<production, exception_handlers, internal_error_handler,
                      not_found_handler, lastRequest, listening, global_pre,
                      context, pipeline, pool, twin>>

\* The call that registers a route returns (or DuplicateRoute leaves it).
RegistrationDone ==
    /\ registration /= NoRegistration
    /\ registration' = NoRegistration
    /\ UNCHANGED <<registries, lastRequest, listening, global_pre, context,
                   pipeline, pool, twin>>

\* A route registered for a method and path that have none.
RegisterRoute(method, path) ==
    /\ \A r \in routes : r.method /= method \/ r.path /= path
    /\ Register(method, path, "h1", FALSE)

(***************************************************************************)
(* What user callbacks do.                                                 *)
(***************************************************************************)
\* A route handler returns a Response, a JSONResponse (a Response too), a
\* dict, a str, None or bytes, or it raises.
HandlerOutcomes ==
    {"Response", "JSONResponse", "dict", "str", "None", "bytes", "raise"}

\* The outcomes with which the dispatcher sends what the handler returned.
Accepted == {"Response", "JSONResponse", "dict", "str"}

\* An error handler returns a Response, returns something else, or raises.
ErrorHandlerOutcomes == {"Response", "dict", "raise"}

Unused == "unused"

Outcomes(used) == IF used THEN ErrorHandlerOutcomes ELSE {Unused}

HandlerRaised == [kind |-> "KeyError", msg |-> <<"boom">>]
ErrorHandlerRaised == [kind |-> "Exception", msg |-> <<"handler failed">>]
NoSendAttribute ==
    [kind |-> "AttributeError", msg |-> <<"object has no attribute 'send'">>]

UserResponse(status_code) ==
    Response(status_code, "application/json", <<"user body">>, {})

\* The value an error handler with the given outcome returns.
Returned(outcome, status_code) ==
    IF outcome = "Response" THEN Value("Response", UserResponse(status_code))
    ELSE Value(outcome, NoResponse)

\* A dict (as its JSON text) or a str: the text is carried in the body.
Data(shape, text) == Value(shape, Response(0, "", text, {}))

\* The value a route handler with the given outcome returns.
HandlerValue(outcome) ==
    CASE outcome = "Response" -> Value("Response", UserResponse(200))
      [] outcome = "JSONResponse" ->
            Value("Response", JSONResponse(<<"{\"id\": 1}">>, 201))
      [] outcome = "dict" -> Data("dict", <<"{\"k\": \"v\"}">>)
      [] outcome = "str" -> Data("str", <<"<p>hello</p>">>)
      [] OTHER -> Value(outcome, NoResponse)

Call(cb, key, exc, outcome) ==
    [cb |-> cb, key |-> key, exc |-> exc, outcome |-> outcome]

(***************************************************************************)
(* The error resolver.                                                     *)
(***************************************************************************)
_get_clean_error_response(status_code, message, detail) ==
    JSONResponse(
        IF detail /= <<>> /\ ~production
        THEN <<"{\"error\": \"", message, "\", \"detail\": \"">> \o detail
                 \o <<"\"}">>
        ELSE ErrorJson(message),
        status_code)

\* Default500 with the production flag ignored: always the debug shape.
DebugShaped500(prefix, exc) ==
    Response(500, "text/plain", <<prefix>> \o exc.msg,
             {<<"X-Error-Detail", exc.msg>>})

\* The default 500 response: clean JSON in production, else text with the
\* message of exc in the body (after prefix) and in X-Error-Detail.
Default500(prefix, exc) ==
    IF production
    THEN _get_clean_error_response(500, "Internal server error", <<>>)
    ELSE Response(500, "text/plain", <<prefix>> \o exc.msg,
                  {<<"X-Error-Detail", exc.msg>>})

\* ChosenHandler with the test type(exception) is exc_type in place of
\* isinstance.
ExactTypeHandler(exception) ==
    LET hits == { i \in 1..Len(exception_handlers) :
                     exception_handlers[i] = exception.kind }
    IN IF hits = {} THEN 0
       ELSE CHOOSE i \in hits : \A j \in hits : i <= j

\* for exc_type, handler in self._exception_handlers.items():
\*     if isinstance(exception, exc_type): ...
\* the position of the handler taken, 0 when none matches.
ChosenHandler(exception) ==
    LET hits == { i \in 1..Len(exception_handlers) :
                     IsInstance(exception, exception_handlers[i]) }
    IN IF hits = {} THEN 0
       ELSE CHOOSE i \in hits : \A j \in hits : i <= j

\* _handle_exception that passes the exception on to the internal-error
\* handler when the per-type handler raises.
RetryingHandleException(exception, exc_outcome, int_outcome) ==
    LET i == ChosenHandler(exception)
        first == IF i = 0 THEN <<>>
                 ELSE << Call("exception_handler", exception_handlers[i],
                              exception, exc_outcome) >>
    IN IF i /= 0 /\ exc_outcome /= "raise"
       THEN [calls |-> first, ret |-> Returned(exc_outcome, 400)]
       ELSE IF internal_error_handler
       THEN [calls |-> first \o << Call("internal_error_handler", "",
                                       exception, int_outcome) >>,
             ret |-> IF int_outcome = "raise"
                     THEN Value("Response",
                                Default500("Internal error handler failed: ",
                                           ErrorHandlerRaised))
                     ELSE Returned(int_outcome, 500)]
       ELSE [calls |-> first,
             ret |-> Value("Response",
                           Default500("Internal Server Error: ", exception))]

\* _handle_exception that in production calls no registered handler and
\* answers with the default response.
HandleExceptionProductionSkipsHandlers(exception, exc_outcome, int_outcome) ==
    LET i == ChosenHandler(exception)
        default == [calls |-> <<>>,
                    ret |-> Value("Response",
                                  Default500("Internal Server Error: ",
                                             exception))]
    IN IF production THEN default
       ELSE IF i /= 0
       THEN [calls |-> << Call("exception_handler", exception_handlers[i],
                               exception, exc_outcome) >>,
             ret |-> IF exc_outcome = "raise"
                     THEN Value("Response",
                                Default500("Exception handler failed: ",
                                           ErrorHandlerRaised))
                     ELSE Returned(exc_outcome, 400)]
       ELSE IF internal_error_handler
       THEN [calls |-> << Call("internal_error_handler", "", exception,
                               int_outcome) >>,
             ret |-> IF int_outcome = "raise"
                     THEN Value("Response",
                                Default500("Internal error handler failed: ",
                                           ErrorHandlerRaised))
                     ELSE Returned(int_outcome, 500)]
       ELSE default

\* _handle_exception(request, exception), with the outcome exc_outcome of
\* the per-type handler and int_outcome of the internal-error handler should
\* they be called: the value returned and the callbacks invoked.
_handle_exception(exception, exc_outcome, int_outcome) ==
    LET i == ChosenHandler(exception)
    IN IF i /= 0
       THEN [calls |-> << Call("exception_handler", exception_handlers[i],
                               exception, exc_outcome) >>,
             ret |-> IF exc_outcome = "raise"
                     THEN Value("Response",
                                Default500("Exception handler failed: ",
                                           ErrorHandlerRaised))
                     ELSE Returned(exc_outcome, 400)]
       ELSE IF internal_error_handler
       THEN [calls |-> << Call("internal_error_handler", "", exception,
                               int_outcome) >>,
             ret |-> IF int_outcome = "raise"
                     THEN Value("Response",
                                Default500("Internal error handler failed: ",
                                           ErrorHandlerRaised))
                     ELSE Returned(int_outcome, 500)]
       ELSE [calls |-> <<>>,
             ret |-> Value("Response",
                           Default500("Internal Server Error: ", exception))]


(***************************************************************************)
(* The dispatcher.                                                         *)
(***************************************************************************)
SupportedContentTypes ==
    {"application/json", "application/x-www-form-urlencoded", "text/plain",
     "multipart/form-data"}

\* The content-type test with "in" for "not in".
InvertedContentTypeTest(content_type) ==
    /\ content_type /= NoContentType
    /\ content_type \in SupportedContentTypes

\* The content-type test without the guard for an absent content type.
MissingContentTypeRejected(content_type) ==
    content_type \notin SupportedContentTypes

\* if content_type and content_type not in [...]
ContentTypeRejected(content_type) ==
    /\ content_type /= NoContentType
    /\ content_type \notin SupportedContentTypes

UnsupportedMediaType(content_type) ==
    Response(415, "text/plain", <<"Unsupported Media Type: ", content_type>>,
             {<<"X-Error-Detail",
                <<"Content-Type ", content_type, " is not supported">>>>})

\* The exception raised for a handler return value that is no Response,
\* dict or str.
UnsupportedReturn(shape) ==
    [kind |-> "TypeError",
     msg |-> <<"Handler returned unsupported type ", shape,
               ". Must return Response, dict, or str.">>]

\* Normalize with a dict sent as HTML.
NormalizeDictAsHtml(value) ==
    CASE value.shape = "Response" -> [exc |-> NoExc, resp |-> value.resp]
      [] value.shape \in {"dict", "str"} ->
            [exc |-> NoExc, resp |-> HTMLResponse(value.resp.body)]
      [] OTHER ->
            [exc |-> UnsupportedReturn(value.shape), resp |-> NoResponse]

\* Normalize with None accepted and sent as an empty 204 response.
NormalizeNoneAs204(value) ==
    CASE value.shape = "Response" -> [exc |-> NoExc, resp |-> value.resp]
      [] value.shape = "dict" ->
            [exc |-> NoExc, resp |-> JSONResponse(value.resp.body, 200)]
      [] value.shape = "str" ->
            [exc |-> NoExc, resp |-> HTMLResponse(value.resp.body)]
      [] value.shape = "None" ->
            [exc |-> NoExc, resp |-> Response(204, "text/plain", <<>>, {})]
      [] OTHER ->
            [exc |-> UnsupportedReturn(value.shape), resp |-> NoResponse]

\* Normalize with bytes accepted and sent as application/octet-stream.
NormalizeBytesAsOctetStream(value) ==
    CASE value.shape = "Response" -> [exc |-> NoExc, resp |-> value.resp]
      [] value.shape = "dict" ->
            [exc |-> NoExc, resp |-> JSONResponse(value.resp.body, 200)]
      [] value.shape = "str" ->
            [exc |-> NoExc, resp |-> HTMLResponse(value.resp.body)]
      [] value.shape = "bytes" ->
            [exc |-> NoExc,
             resp |-> Response(200, "application/octet-stream",
                               <<"bytes">>, {})]
      [] OTHER ->
            [exc |-> UnsupportedReturn(value.shape), resp |-> NoResponse]

\* Normalize with an empty dict or str answered 204.
NormalizeEmptyAs204(value) ==
    CASE value.shape = "Response" -> [exc |-> NoExc, resp |-> value.resp]
      [] value.shape \in {"dict", "str"} /\ Len(value.resp.body) = 0 ->
            [exc |-> NoExc, resp |-> Response(204, "text/plain", <<>>, {})]
      [] value.shape = "dict" ->
            [exc |-> NoExc, resp |-> JSONResponse(value.resp.body, 200)]
      [] value.shape = "str" ->
            [exc |-> NoExc, resp |-> HTMLResponse(value.resp.body)]
      [] OTHER ->
            [exc |-> UnsupportedReturn(value.shape), resp |-> NoResponse]

\* Normalize response based on return type: the response to send, or the
\* exception raised.
Normalize(value) ==
    CASE value.shape = "Response" -> [exc |-> NoExc, resp |-> value.resp]
      [] value.shape = "dict" ->
            [exc |-> NoExc, resp |-> JSONResponse(value.resp.body, 200)]
      [] value.shape = "str" ->
            [exc |-> NoExc, resp |-> HTMLResponse(value.resp.body)]
      [] OTHER ->
            [exc |-> UnsupportedReturn(value.shape), resp |-> NoResponse]

Result(c, s, res, exc) ==
    [calls |-> c, sent |-> s, resolution |-> res, raised |-> exc]

\* err_resp = self._handle_exception(request, e); err_resp.send(client)
\* after the callbacks in before: a value that is no Response has no send.
Resolve(before, exception, exc_outcome, int_outcome) ==
    LET r == _handle_exception(exception, exc_outcome, int_outcome)
        res == [called |-> TRUE, exception |-> exception, ret |-> r.ret]
    IN IF r.ret.shape = "Response"
       THEN Result(before \o r.calls, <<r.ret.resp>>, res, NoExc)
       ELSE Result(before \o r.calls, <<>>, res, NoSendAttribute)

\* RouteFound with the return type checked outside the try block: the
\* TypeError leaves the dispatcher.
RouteFoundCheckOutsideTry(content_type, outcome, exc_outcome, int_outcome) ==
    IF ContentTypeRejected(content_type)
    THEN Result(<<>>, <<UnsupportedMediaType(content_type)>>, NoResolution,
                NoExc)
    ELSE LET called == << Call("route_handler", "", NoExc, outcome) >>
             n == Normalize(HandlerValue(outcome))
         IN IF outcome = "raise"
            THEN Resolve(called, HandlerRaised, exc_outcome, int_outcome)
            ELSE IF n.exc /= NoExc
            THEN Result(called, <<>>, NoResolution, n.exc)
            ELSE Result(called, <<n.resp>>, NoResolution, NoExc)

\* if route: try: ... except Exception as e: ...
RouteFound(content_type, outcome, exc_outcome, int_outcome) ==
    IF ContentTypeRejected(content_type)
    THEN Result(<<>>, <<UnsupportedMediaType(content_type)>>, NoResolution,
                NoExc)
    ELSE LET called == << Call("route_handler", "", NoExc, outcome) >>
             n == Normalize(HandlerValue(outcome))
         IN IF outcome = "raise"
            THEN Resolve(called, HandlerRaised, exc_outcome, int_outcome)
            ELSE IF n.exc /= NoExc
            THEN Resolve(called, n.exc, exc_outcome, int_outcome)
            ELSE Result(called, <<n.resp>>, NoResolution, NoExc)

\* if allowed_methods: ...
MethodNotAllowed(method, path, allowed_methods) ==
    LET listed == Join(", ", Sorted(allowed_methods))
    IN IF production
       THEN _get_clean_error_response(405, "Method not allowed",
                                      <<"Allowed methods: ">> \o listed)
       ELSE Response(405, "text/plain",
                     <<"Method Not Allowed: ", method, " ">> \o path,
                     {<<"Allow", listed>>, <<"X-Error-Path", path>>})

\* Default 404 handling
DefaultNotFound(method, path) ==
    IF production
    THEN _get_clean_error_response(404, "Not found", <<>>)
    ELSE Response(404, "text/plain", <<"Not Found: ", method, " ">> \o path,
                  {<<"X-Error-Path", path>>})

\* The fallback for a failed 404 handler with status 404 in debug mode too.
NotFoundFallbackAlways404(handler_error) ==
    IF production
    THEN _get_clean_error_response(404, "Not found", <<>>)
    ELSE Response(404, "text/plain",
                  <<"404 handler failed: ">> \o handler_error.msg,
                  {<<"X-Error-Detail", handler_error.msg>>})

\* 404 handler failed, fall back to default
NotFoundFallback(handler_error) ==
    IF production
    THEN _get_clean_error_response(404, "Not found", <<>>)
    ELSE Response(500, "text/plain",
                  <<"404 handler failed: ">> \o handler_error.msg,
                  {<<"X-Error-Detail", handler_error.msg>>})

\* No route found - use custom 404 handler if set
NotFound(method, path, nf_outcome) ==
    IF not_found_handler
    THEN LET called == << Call("not_found_handler", "", NoExc, nf_outcome) >>
         IN CASE nf_outcome = "Response" ->
                    Result(called, <<UserResponse(404)>>, NoResolution, NoExc)
              [] nf_outcome = "raise" ->
                    Result(called, <<NotFoundFallback(ErrorHandlerRaised)>>,
                           NoResolution, NoExc)
              [] OTHER ->
                    Result(called, <<NotFoundFallback(NoSendAttribute)>>,
                           NoResolution, NoExc)
    ELSE Result(<<>>, <<DefaultNotFound(method, path)>>, NoResolution, NoExc)

\* _handle_request with the allowed methods ignored: every request without
\* a route is handled as not found.
HandleRequestIgnoringAllowed(method, path, content_type, m, outcome, exc_o, int_o, nf_o) ==
    IF m.route
    THEN RouteFound(content_type, outcome, exc_o, int_o)
    ELSE NotFound(method, path, nf_o)

\* _handle_request with the content type checked before the match: the 415
\* answer does not depend on the match result.
HandleRequestGatingFirst(method, path, content_type, m, outcome, exc_o, int_o, nf_o) ==
    IF ContentTypeRejected(content_type)
    THEN Result(<<>>, <<UnsupportedMediaType(content_type)>>, NoResolution,
                NoExc)
    ELSE IF m.route
    THEN RouteFound(content_type, outcome, exc_o, int_o)
    ELSE IF m.allowed /= {}
    THEN Result(<<>>, <<MethodNotAllowed(method, path, m.allowed)>>,
                NoResolution, NoExc)
    ELSE NotFound(method, path, nf_o)

\* _handle_request(client, method, path, body, request_capsule)
_handle_request(method, path, content_type, m, outcome, exc_o, int_o, nf_o) ==
    IF m.route
    THEN RouteFound(content_type, outcome, exc_o, int_o)
    ELSE IF m.allowed /= {}
    THEN Result(<<>>, <<MethodNotAllowed(method, path, m.allowed)>>,
                NoResolution, NoExc)
    ELSE NotFound(method, path, nf_o)

HandleRequest(method, path, content_type) ==
    LET m == Match(method, BasePath(path))
        runs == m.route /\ ~ContentTypeRejected(content_type)
    IN /\ Idle
       /\ listening
       /\ \E outcome \in (IF runs THEN HandlerOutcomes ELSE {Unused}) :
         LET throws == runs /\ outcome \notin Accepted
         IN \E exc_outcome \in Outcomes(throws /\ exception_handlers /= <<>>),
               int_outcome \in Outcomes(throws /\ internal_error_handler),
               nf_outcome \in Outcomes(~m.route /\ m.allowed = {}
                                          /\ not_found_handler) :
              LET r == _handle_request(method, path, content_type, m,
                                       outcome, exc_outcome, int_outcome,
                                       nf_outcome)
              IN /\ request' = [method |-> method, path |-> path,
                                content_type |-> content_type,
                                path_params |-> m.params]
                 /\ matched' = m
                 /\ calls' = r.calls
                 /\ sent' = r.sent
                 /\ resolution' = r.resolution
                 /\ raised' = r.raised
                 /\ UNCHANGED <<registries, listening, global_pre, context,
                   registration, pipeline, pool, twin>>

\* _handle_request returns (or the exception leaves it): the request and
\* everything built for it are dropped.
Return ==
    /\ request /= NoRequest
    /\ request' = NoRequest
    /\ matched' = NoMatch
    /\ calls' = <<>>
    /\ sent' = <<>>
    /\ resolution' = NoResolution
    /\ raised' = NoExc
    /\ context' = EmptyContext
    /\ observed' = <<>>
    /\ UNCHANGED <<registries, listening, global_pre, registration,
                   global_post, per_route, pool, twin>>

Next ==
    \/ \E t \in ExcTypes : SetExceptionHandler(t)
    \/ SetNotFoundHandler
    \/ SetInternalErrorHandler
    \/ \E method \in Methods, path \in RoutePaths : RegisterRoute(method, path)
    \/ RegistrationDone
    \/ Listen
    \/ \E method \in Methods, path \in RawPaths, ct \in ContentTypes :
          HandleRequest(method, path, ct)
    \/ Return

Spec == Init /\ [][Next]_vars

(***************************************************************************)
(* The router with parameter, typed and wildcard patterns.                 *)
(***************************************************************************)
RouterMethods == {"GET", "POST"}
RouterPatterns ==
    {"/users/me", "/users/{id}", "/users/{id:int}", "/users/*rest",
     "/files/*rest"}
RouterPaths ==
    { <<"/users/me">>, <<"/users/42">>, <<"/users/abc">>, <<"/files/a/b">>,
      <<"/b">> }
Handlers == {"h1", "h2"}

NextRouter ==
    \/ \E method \in RouterMethods, path \in RouterPatterns,
          handler \in Handlers, overwrite \in BOOLEAN :
          Register(method, path, handler, overwrite)
    \/ RegistrationDone
    \/ Listen
    \/ \E method \in RouterMethods, path \in RouterPaths :
          HandleRequest(method, path, NoContentType)
    \/ Return

SpecRouter == Init /\ [][NextRouter]_vars

(***************************************************************************)

(* A send that raises: the write to the client fails.                      *)
(***************************************************************************)
SendFailed == [kind |-> "OSError", msg |-> <<"send failed">>]

\* The outcome r of a request when its first send raises.  The sends of the
\* try blocks (err_resp.send of the 415, response.send, not_found_resp.send)
\* are guarded: the exception goes to the except clause, which builds
\* another response and sends it.  The other sends are not guarded: the
\* exception leaves _handle_request.
SendRaises(r, m, exc_outcome, int_outcome, nf_outcome) ==
    IF r.sent = <<>> THEN r
    ELSE IF m.route /\ ~r.resolution.called
    THEN LET e == Resolve(r.calls, SendFailed, exc_outcome, int_outcome)
         IN Result(e.calls, r.sent \o e.sent, e.resolution, e.raised)
    ELSE IF ~m.route /\ m.allowed = {} /\ nf_outcome = "Response"
    THEN Result(r.calls, r.sent \o <<NotFoundFallback(SendFailed)>>,
                r.resolution, NoExc)
    ELSE Result(r.calls, r.sent, r.resolution, SendFailed)

\* _handle_request for a client the first send to which raises.
HandleRequestSendFails(method, path, content_type) ==
    LET m == Match(method, BasePath(path))
        runs == m.route /\ ~ContentTypeRejected(content_type)
    IN /\ Idle
       /\ listening
       /\ \E outcome \in (IF runs THEN HandlerOutcomes ELSE {Unused}) :
         LET resolves == m.route
         IN \E exc_outcome \in Outcomes(resolves /\ exception_handlers /= <<>>),
               int_outcome \in Outcomes(resolves /\ internal_error_handler),
               nf_outcome \in Outcomes(~m.route /\ m.allowed = {}
                                          /\ not_found_handler) :
              LET r == SendRaises(_handle_request(method, path, content_type,
                                                  m, outcome, exc_outcome,
                                                  int_outcome, nf_outcome),
                                  m, exc_outcome, int_outcome, nf_outcome)
              IN /\ request' = [method |-> method, path |-> path,
                                content_type |-> content_type,
                                path_params |-> m.params]
                 /\ matched' = m
                 /\ calls' = r.calls
                 /\ sent' = r.sent
                 /\ resolution' = r.resolution
                 /\ raised' = r.raised
                 /\ UNCHANGED <<registries, listening, global_pre, context,
                   registration, pipeline, pool, twin>>

NextSend ==
    \/ Next
    \/ \E method \in Methods, path \in RawPaths, ct \in ContentTypes :
          HandleRequestSendFails(method, path, ct)

SpecSend == Init /\ [][NextSend]_vars

(***************************************************************************)

(* The middleware registry and the pre-route phase of the pipeline.        *)
(***************************************************************************)
\* The middleware functions: M1 sets ctx["x"] = "1", M2 sets ctx["x"] = "2",
\* M3 sets ctx["y"] = "3"; the per-route middleware A1 and A2 set ctx["y"].
MiddlewareFns == {"M1", "M2", "M3"}
Priorities == {5, 10}

WrittenKey(fn) == IF fn \in {"M1", "M2"} THEN "x" ELSE "y"
WrittenValue(fn) ==
    CASE fn = "M1" -> "1" [] fn = "M2" -> "2" [] fn = "M3" -> "3"
      [] fn = "A1" -> "a1" [] fn = "A2" -> "a2" [] OTHER -> "unset"

\* (priority, registration order) of a before that of b.
EntryLess(a, b) ==
    \/ a.priority < b.priority
    \/ a.priority = b.priority /\ a.order < b.order

\* The entries as registered, not sorted: what the registry would hold if
\* insertion did not sort again.
RegistrationOrder(entries) == entries

\* The entries sorted by (priority ascending, registration order ascending).
RECURSIVE SortByPriority(_)
SortByPriority(entries) ==
    IF entries = <<>> THEN <<>>
    ELSE LET i == CHOOSE i \in 1..Len(entries) :
                      \A j \in 1..Len(entries) :
                          j = i \/ EntryLess(entries[i], entries[j])
             rest == [k \in 1..(Len(entries) - 1) |->
                         IF k < i THEN entries[k] ELSE entries[k + 1]]
         IN <<entries[i]>> \o SortByPriority(rest)

\* register_global(fn, priority, pre-route, name): append, then sort again.
RegisterMiddleware(fn, priority) ==
    /\ Idle
    /\ Len(global_pre) < MaxMiddleware
    /\ \A i \in 1..Len(global_pre) : global_pre[i].fn /= fn
    /\ global_pre' =
          SortByPriority(Append(global_pre,
                                [fn |-> fn, priority |-> priority,
                                 order |-> Len(global_pre) + 1]))
    /\ UNCHANGED <<registries, listening, lastRequest, context,
                   registration, pipeline, pool, twin>>

\* register_global(fn, priority, post-route, name)
RegisterPostMiddleware(fn, priority) ==
    /\ Idle
    /\ Len(global_post) < MaxMiddleware
    /\ \A i \in 1..Len(global_post) : global_post[i].fn /= fn
    /\ global_post' =
          SortByPriority(Append(global_post,
                                [fn |-> fn, priority |-> priority,
                                 order |-> Len(global_post) + 1]))
    /\ UNCHANGED <<registries, listening, lastRequest, context, global_pre,
                   registration, per_route, observed, pool, twin>>

\* register(method, pattern, handler, per_route_middleware) for a method and
\* pattern that have no route: the route is inserted, and
\* attach_per_route(route, chain) stores the list as given.
RegisterRouteWith(method, path, chain) ==
    LET r == RouterInsert(routes, method, path, "h1", FALSE)
    IN /\ Idle
       /\ \A q \in routes : q.method /= method \/ q.path /= path
       /\ Cardinality(r.routes) <= MaxRoutes
       /\ routes' = r.routes
       /\ registration' = [method |-> method, path |-> path,
                           handler |-> "h1", overwrite |-> FALSE,
                           error |-> r.error]
       /\ per_route' = per_route
                          \cup {[method |-> method, path |-> path,
                                 chain |-> chain]}
       /\ UNCHANGED <<production, exception_handlers, internal_error_handler,
                      not_found_handler, lastRequest, listening, global_pre,
                      context, global_post, observed, pool, twin>>

Names(entries) == [i \in 1..Len(entries) |-> entries[i].fn]

\* The per-route middleware list of a route.
AttachedTo(route) ==
    LET lists == { e \in per_route :
                      e.method = route.method /\ e.path = route.path }
    IN IF lists = {} THEN <<>> ELSE (CHOOSE e \in lists : TRUE).chain

\* The pre-route chain with the per-route middleware first.
PreChainPerRouteFirst(route) == AttachedTo(route) \o Names(global_pre)

\* pre_chain(route): global pre-route middleware, then the per-route list.
PreChain(route) == Names(global_pre) \o AttachedTo(route)

\* post_chain(route): global post-route middleware only.
PostChain(route) == Names(global_post)

\* The context after the middleware of the chain ran on ctx, one after the
\* other.
RECURSIVE RunChain(_, _)
RunChain(chain, ctx) ==
    IF chain = <<>> THEN ctx
    ELSE RunChain(Tail(chain),
                  [k \in ContextKeys |->
                      IF k = WrittenKey(chain[1])
                      THEN WrittenValue(chain[1]) ELSE ctx[k]])

\* The calls of the pre-route middleware that ran; the one at position cut,
\* if any, returned a Response, the others None.
ChainCalls(ran, cut) ==
    [i \in 1..Len(ran) |->
        Call(IF i <= Len(global_pre) THEN "middleware" ELSE "route_middleware",
             ran[i], NoExc, IF i = cut THEN "Response" ELSE "continue")]

PostCalls(chain) ==
    [i \in 1..Len(chain) |-> Call("post_middleware", chain[i], NoExc, "continue")]

\* The Response with which a middleware stops the chain.
ShortCircuitResponse ==
    JSONResponse(<<"{\"error\": \"Authentication required\"}">>, 401)

Outcome(c, s, res, exc, ctx, seen) ==
    [calls |-> c, sent |-> s, resolution |-> res, raised |-> exc,
     context |-> ctx, observed |-> seen]

\* A short circuit after which the handler still runs and the post-route
\* phase is left out.
ShortCircuitRunsHandler(ran, post) ==
    Outcome(ChainCalls(ran, Len(ran))
               \o << Call("route_handler", "", NoExc, "Response") >>,
            <<UserResponse(200)>>, NoResolution, NoExc,
            RunChain(SubSeq(ran, 1, Len(ran) - 1), EmptyContext), <<>>)

\* SHORT_CIRCUITED: the last middleware of ran returned a Response.  The
\* handler is not invoked; the post-route chain runs on that response, which
\* is then sent.
ShortCircuit(ran, post) ==
    Outcome(ChainCalls(ran, Len(ran)) \o PostCalls(post),
            <<ShortCircuitResponse>>, NoResolution, NoExc,
            RunChain(SubSeq(ran, 1, Len(ran) - 1), EmptyContext),
            [i \in 1..Len(post) |-> ShortCircuitResponse])

\* The pipeline for one request: match, content-type check, the pre-route
\* chain up to a short circuit at position cut (0: none), then the handler
\* with the context the chain left, its result normalized, the post-route
\* chain on the normalized response, and the send.  An exception goes to the
\* error resolver and its response is sent without the post-route phase.
RunPipeline(method, path, content_type, m, cut, outcome) ==
    IF ~m.route \/ ContentTypeRejected(content_type)
    THEN LET r == _handle_request(method, path, content_type, m, Unused,
                                  Unused, Unused, Unused)
         IN Outcome(r.calls, r.sent, r.resolution, r.raised, EmptyContext,
                    <<>>)
    ELSE IF cut > 0
    THEN ShortCircuit(SubSeq(PreChain(m.entry), 1, cut), PostChain(m.entry))
    ELSE LET pre == PreChain(m.entry)
             post == PostChain(m.entry)
             r == RouteFound(content_type, outcome, Unused, Unused)
         IN IF r.resolution.called \/ r.raised /= NoExc
            THEN Outcome(ChainCalls(pre, 0) \o r.calls, r.sent, r.resolution,
                         r.raised, RunChain(pre, EmptyContext), <<>>)
            ELSE Outcome(ChainCalls(pre, 0) \o r.calls \o PostCalls(post),
                         r.sent, r.resolution, r.raised,
                         RunChain(pre, EmptyContext),
                         [i \in 1..Len(post) |-> r.sent[1]])

DispatchRequest(method, path, content_type) ==
    LET m == Match(method, BasePath(path))
        runs == m.route /\ ~ContentTypeRejected(content_type)
    IN /\ Idle
       /\ listening
       /\ \E cut \in (IF runs THEN 0..Len(PreChain(m.entry)) ELSE {0}) :
          \E outcome \in (IF runs /\ cut = 0 THEN HandlerOutcomes
                          ELSE {Unused}) :
            LET r == RunPipeline(method, path, content_type, m, cut, outcome)
            IN /\ request' = [method |-> method, path |-> path,
                              content_type |-> content_type,
                              path_params |-> m.params]
               /\ matched' = m
               /\ calls' = r.calls
               /\ context' = r.context
               /\ sent' = r.sent
               /\ resolution' = r.resolution
               /\ raised' = r.raised
               /\ observed' = r.observed
               /\ UNCHANGED <<registries, listening, global_pre, registration,
                              global_post, per_route, pool, twin>>

NextMw ==
    \/ \E fn \in MiddlewareFns, priority \in Priorities :
          RegisterMiddleware(fn, priority)
    \/ \E method \in Methods, path \in RoutePaths : RegisterRoute(method, path)
    \/ RegistrationDone
    \/ Listen
    \/ \E method \in Methods, path \in RawPaths, ct \in ContentTypes :
          DispatchRequest(method, path, ct)
    \/ Return

SpecMw == Init /\ [][NextMw]_vars

\* The pipeline with per-route and post-route middleware.
PerRouteFns == {"A1", "A2"}
PerRouteLists == {<<>>, <<"A1">>, <<"A1", "A2">>, <<"A2", "A1">>}
PostFns == {"P1", "P2"}
PipelineMethods == {"GET", "POST"}

NextPipeline ==
    \/ \E fn \in {"M1", "M2"} : RegisterMiddleware(fn, 10)
    \/ \E fn \in PostFns : RegisterPostMiddleware(fn, 10)
    \/ \E method \in PipelineMethods, path \in RoutePaths,
          chain \in PerRouteLists : RegisterRouteWith(method, path, chain)
    \/ RegistrationDone
    \/ Listen
    \/ \E method \in PipelineMethods, path \in RawPaths,
          ct \in {NoContentType, "application/xml"} :
          DispatchRequest(method, path, ct)
    \/ Return

SpecPipeline == Init /\ [][NextPipeline]_vars


(***************************************************************************)
(* Requests on worker threads.  A worker processes one request at a time,  *)
(* to completion; the steps of different workers interleave.               *)
(***************************************************************************)
\* What the middleware of the request of worker w writes: a value of that
\* request alone (its request id).
RequestTag(w) ==
    CASE w = 1 -> "r1" [] w = 2 -> "r2" [] w = 3 -> "r3" [] OTHER -> "r4"

\* One Request object used for every call.
SharedRequest(w) == 0

\* request = Request(...): the call of _handle_request on worker w builds a
\* Request object of its own.
NewRequest(w) == w

\* _handle_request is called on worker w: the Request is built, with an
\* empty context.
Begin(w) ==
    /\ listening
    /\ threads[w].pc = "idle"
    /\ threads' = [threads EXCEPT ![w] = [pc |-> "built",
                                          object |-> NewRequest(w),
                                          seen |-> "unset"]]
    /\ contexts' = [contexts EXCEPT ![NewRequest(w)] = EmptyContext]
    /\ UNCHANGED <<registries, registration, listening, global_pre, context,
                   lastRequest, pipeline, twin>>

\* A pre-route middleware writes request.context[key].
MiddlewareWrites(w, key) ==
    /\ threads[w].pc = "built"
    /\ threads' = [threads EXCEPT ![w].pc = "written"]
    /\ contexts' = [contexts EXCEPT ![threads[w].object][key] = RequestTag(w)]
    /\ UNCHANGED <<registries, registration, listening, global_pre, context,
                   lastRequest, pipeline, twin>>

\* The handler reads request.context: the value it finds that is not unset.
HandlerReads(w) ==
    LET ctx == contexts[threads[w].object]
        set == { k \in ContextKeys : ctx[k] /= "unset" }
    IN /\ threads[w].pc = "written"
       /\ threads' = [threads EXCEPT
                        ![w].pc = "read",
                        ![w].seen = IF set = {} THEN "unset"
                                    ELSE ctx[CHOOSE k \in set : TRUE]]
       /\ UNCHANGED <<registries, registration, listening, global_pre,
                      context, lastRequest, pipeline, contexts, twin>>

\* The response is sent: the Request and its context are released.
Finish(w) ==
    /\ threads[w].pc = "read"
    /\ threads' = [threads EXCEPT ![w] = IdleThread]
    /\ contexts' = [contexts EXCEPT ![threads[w].object] = EmptyContext]
    /\ UNCHANGED <<registries, registration, listening, global_pre, context,
                   lastRequest, pipeline, twin>>

NextThreads ==
    \/ Listen
    \/ \E w \in Workers : Begin(w)
    \/ \E w \in Workers, key \in ContextKeys : MiddlewareWrites(w, key)
    \/ \E w \in Workers : HandlerReads(w)
    \/ \E w \in Workers : Finish(w)

SpecThreads == Init /\ [][NextThreads]_vars

(***************************************************************************)

(* Two applications with the same registrations that differ in production. *)
(* The first answers a request; the second is then built with the other    *)
(* value of production and the registrations of the first, and answers the *)
(* same request.                                                           *)
(***************************************************************************)
\* The second application: Catzilla(production=...) with the other value,
\* then the registrations of the first.  What the first answered is kept.
BuildTwin ==
    /\ request /= NoRequest
    /\ twin = NoTwin
    /\ production' = ~production
    /\ twin' = [production |-> production, request |-> request,
                calls |-> calls, sent |-> sent, raised |-> raised]
    /\ request' = NoRequest
    /\ matched' = NoMatch
    /\ calls' = <<>>
    /\ sent' = <<>>
    /\ resolution' = NoResolution
    /\ raised' = NoExc
    /\ UNCHANGED <<exception_handlers, internal_error_handler,
                   not_found_handler, routes, registration, listening,
                   global_pre, context, pipeline, pool>>

\* The request the first application answered is delivered to the second.
HandleRequestAgain ==
    /\ twin /= NoTwin
    /\ HandleRequest(twin.request.method, twin.request.path,
                     twin.request.content_type)

\* What the two applications are given: handlers for the exceptions a route
\* handler causes, one route, and requests that match it, miss its method
\* or miss its path.
TwinExcTypes == {"KeyError", "TypeError"}
TwinMethods == {"GET", "POST"}
TwinPaths == { <<"/a">>, <<"/b">> }

\* Registration ends when the second application is built.
NextTwin ==
    \/ twin = NoTwin /\ \E t \in TwinExcTypes : SetExceptionHandler(t)
    \/ twin = NoTwin /\ SetNotFoundHandler
    \/ twin = NoTwin /\ SetInternalErrorHandler
    \/ twin = NoTwin /\ RegisterRoute("GET", "/a")
    \/ RegistrationDone
    \/ twin = NoTwin /\ Listen
    \/ /\ twin = NoTwin
       /\ \E method \in TwinMethods, path \in TwinPaths, ct \in ContentTypes :
             HandleRequest(method, path, ct)
    \/ BuildTwin
    \/ HandleRequestAgain
    \/ Return

SpecTwin == Init /\ [][NextTwin]_vars

(***************************************************************************)

(* Properties.                                                             *)
(***************************************************************************)
Handled == request /= NoRequest

CallsTo(cb) == { i \in 1..Len(calls) : calls[i].cb = cb }

\* Some registered per-type handler matches the exception being resolved.
Matches(exception) ==
    \E t \in Range(exception_handlers) : IsInstance(exception, t)

\* The registered kind nearest to the exception's own kind.
MostSpecific(exception) ==
    LET mro == Mro(exception.kind)
        reg == { i \in 1..Len(mro) : mro[i] \in Range(exception_handlers) }
    IN mro[CHOOSE i \in reg : \A j \in reg : i <= j]

\* body contains the pieces of msg, in order and adjacent.
Carries(body, msg) ==
    \E i \in 1..(Len(body) + 1) :
        /\ i + Len(msg) - 1 <= Len(body)
        /\ SubSeq(body, i, i + Len(msg) - 1) = msg

HeaderValues(resp, name) == { h[2] : h \in { g \in resp.headers : g[1] = name } }

\* C1: when registered handlers match the exception raised, the handler
\* invoked is the one registered for the nearest kind (the exact type, else
\* the nearest ancestor), whatever the order of registration.
C1_MostSpecificHandlerWins ==
    (resolution.called /\ Matches(resolution.exception)) =>
        /\ Cardinality(CallsTo("exception_handler")) = 1
        /\ \A i \in CallsTo("exception_handler") :
              calls[i].key = MostSpecific(resolution.exception)

\* C2 as stated: when the chosen per-type handler raises and an
\* internal-error handler is registered, the internal-error handler is
\* invoked exactly once.
C2_RetryViaInternalHandler ==
    (/\ resolution.called
     /\ internal_error_handler
     /\ \E i \in CallsTo("exception_handler") : calls[i].outcome = "raise")
        => Cardinality(CallsTo("internal_error_handler")) = 1

\* C2 amended: when the chosen per-type handler raises, the internal-error
\* handler is not invoked, registered or not; the resolver returns the
\* default 500 response, which carries the message of the handler's own
\* exception in debug mode.
C2_FailedHandlerFallsBackToDefault ==
    (/\ resolution.called
     /\ \E i \in CallsTo("exception_handler") : calls[i].outcome = "raise")
        => /\ CallsTo("internal_error_handler") = {}
           /\ Len(sent) = 1
           /\ sent[1].status = 500
           /\ production =>
                 /\ sent[1].content_type = "application/json"
                 /\ sent[1].body = ErrorJson("Internal server error")
           /\ ~production =>
                 /\ sent[1].content_type = "text/plain"
                 /\ sent[1].body = <<"Exception handler failed: ">>
                                      \o ErrorHandlerRaised.msg

C2_Witness ==
    /\ resolution.called
    /\ internal_error_handler
    /\ \E i \in CallsTo("exception_handler") : calls[i].outcome = "raise"
    /\ Len(sent) = 1


\* C3: the policy is layered.  The internal-error handler is invoked, with
\* the original exception, exactly when one is set and no registered per-type
\* handler matches; the default 500 response is produced with no error
\* handler invoked exactly when no per-type handler matches and no
\* internal-error handler is set.
C3_LayeredPolicy ==
    resolution.called =>
        LET e == resolution.exception
            errorCalls == CallsTo("exception_handler")
                             \cup CallsTo("internal_error_handler")
        IN /\ (CallsTo("internal_error_handler") /= {})
                  <=> (~Matches(e) /\ internal_error_handler)
           /\ \A i \in CallsTo("internal_error_handler") : calls[i].exc = e
           /\ (/\ errorCalls = {}
               /\ sent = << IF production
                            THEN JSONResponse(
                                    ErrorJson("Internal server error"), 500)
                            ELSE Response(500, "text/plain",
                                    <<"Internal Server Error: ">> \o e.msg,
                                    {<<"X-Error-Detail", e.msg>>}) >>)
                  <=> (~Matches(e) /\ ~internal_error_handler)

C3_Witness ==
    /\ resolution.called
    /\ exception_handlers /= <<>>
    /\ ~Matches(resolution.exception)
    /\ \E i \in CallsTo("internal_error_handler") :
          calls[i].exc = resolution.exception

\* The response for the exception is a 500 of the shape the production flag
\* asks for, the debug shape carrying msg in the body and in X-Error-Detail.
Shaped500(msg) ==
    /\ Len(sent) = 1
    /\ sent[1].status = 500
    /\ production =>
          /\ sent[1].content_type = "application/json"
          /\ sent[1].body = ErrorJson("Internal server error")
    /\ ~production =>
          /\ sent[1].content_type = "text/plain"
          /\ Carries(sent[1].body, msg)
          /\ HeaderValues(sent[1], "X-Error-Detail") = {msg}

InternalHandlerRaised ==
    \E i \in CallsTo("internal_error_handler") : calls[i].outcome = "raise"

\* C4 as stated: when the internal-error handler raises or is unset, the
\* response is a 500 shaped by the production flag, the debug shape carrying
\* the message of the exception being resolved.
C4_DefaultCarriesResolvedMessage ==
    (resolution.called /\ (InternalHandlerRaised \/ ~internal_error_handler))
        => Shaped500(resolution.exception.msg)

\* C4 amended: when no per-type handler matches and the internal-error
\* handler raises or is unset, the response is a 500 shaped by the
\* production flag; the debug shape carries the message of the exception
\* being resolved when the handler is unset, and the message of the exception
\* the internal-error handler raised when it raised.
C4_DefaultResponseShape ==
    (resolution.called /\ ~Matches(resolution.exception)) =>
        /\ ~internal_error_handler => Shaped500(resolution.exception.msg)
        /\ InternalHandlerRaised => Shaped500(ErrorHandlerRaised.msg)

C4_Witness ==
    /\ resolution.called
    /\ ~Matches(resolution.exception)
    /\ InternalHandlerRaised
    /\ ~production
    /\ Len(sent) = 1

\* C5: whatever the handlers do, the value _handle_exception returns is a
\* Response the dispatcher can send, and no exception leaves the dispatcher.
C5_ResolverReturnsResponse ==
    resolution.called =>
        /\ resolution.ret.shape = "Response"
        /\ raised = NoExc


MethodNotAllowedResult == Handled /\ ~matched.route /\ matched.allowed /= {}

\* C6: a method-not-allowed match result gives a 405 response with an Allow
\* header that lists exactly the allowed methods, sorted and joined with
\* ", ", in production and in debug mode.
C6_MethodNotAllowedHasAllow ==
    MethodNotAllowedResult =>
        /\ Len(sent) = 1
        /\ sent[1].status = 405
        /\ HeaderValues(sent[1], "Allow")
              = { Join(", ", Sorted(matched.allowed)) }

OffAllowList(content_type) ==
    /\ content_type /= NoContentType
    /\ content_type \notin {"application/json",
                            "application/x-www-form-urlencoded",
                            "text/plain", "multipart/form-data"}

\* C7: a request that matches a route and has a content type off the
\* allow-list gets a 415 response, and no route handler, middleware or error
\* handler is invoked for it.
C7_UnsupportedMediaTypeRejected ==
    (Handled /\ matched.route /\ OffAllowList(request.content_type)) =>
        /\ Len(sent) = 1
        /\ sent[1].status = 415
        /\ calls = <<>>
        /\ ~resolution.called

C7_Witness ==
    /\ Handled
    /\ matched.route
    /\ request.content_type = "application/xml"
    /\ Len(sent) = 1
    /\ sent[1].status = 415

\* C8: a request without content type whose method is GET, HEAD, OPTIONS or
\* DELETE is not answered 415, and when it matches a route the route handler
\* is invoked.
C8_AbsentContentTypeAllowed ==
    (/\ Handled
     /\ request.content_type = NoContentType
     /\ request.method \in {"GET", "HEAD", "OPTIONS", "DELETE"}) =>
        /\ \A i \in 1..Len(sent) : sent[i].status /= 415
        /\ matched.route =>
              /\ Len(calls) >= 1
              /\ calls[1].cb = "route_handler"

C8_Witness ==
    /\ Handled
    /\ request.content_type = NoContentType
    /\ request.method = "DELETE"
    /\ matched.route
    /\ CallsTo("route_handler") /= {}
    /\ Len(sent) = 1

\* The response sent was built by the framework, not returned by a user
\* callback: the 415, 404, 405 and 500 responses and the fallbacks for a
\* handler that failed.
FrameworkBuilt ==
    /\ Len(sent) = 1
    /\ \/ matched.route /\ calls = <<>>
       \/ /\ Handled
          /\ ~matched.route
          /\ \A i \in CallsTo("not_found_handler") :
                calls[i].outcome /= "Response"
       \/ /\ resolution.called
          /\ \A i \in CallsTo("exception_handler")
                         \cup CallsTo("internal_error_handler") :
                calls[i].outcome = "raise"

\* C9: in production no response built by the framework carries an
\* X-Error-Detail header.
C9_NoErrorDetailInProduction ==
    (production /\ FrameworkBuilt) =>
        "X-Error-Detail" \notin HeaderNames(sent[1])

\* The status code of the condition the framework answers.
ConditionStatus ==
    IF resolution.called THEN 500
    ELSE IF matched.route THEN 415
    ELSE IF matched.allowed /= {} THEN 405
    ELSE 404

ShortMessages ==
    {"Unsupported media type", "Not found", "Method not allowed",
     "Internal server error"}

\* C10: in production every error response built by the framework is a JSON
\* body {"error": <short message>} with the status code of the condition, no
\* detail field and no internal-detail header.
C10_ProductionErrorsAreCleanJson ==
    (production /\ FrameworkBuilt) =>
        /\ sent[1].status = ConditionStatus
        /\ sent[1].content_type = "application/json"
        /\ \E m \in ShortMessages : sent[1].body = ErrorJson(m)
        /\ HeaderNames(sent[1]) \cap {"X-Error-Detail", "X-Error-Path"} = {}


\* The route handler was invoked and had the given outcome.
HandlerDid(outcome) ==
    \E i \in CallsTo("route_handler") : calls[i].outcome = outcome

\* C11: a Response returned by the handler is sent unchanged; a dict is sent
\* as JSON with status 200 and content type application/json; a str is sent
\* as HTML with status 200 and content type text/html; charset=utf-8.
C11_SupportedShapesNormalized ==
    /\ HandlerDid("Response") => sent = << UserResponse(200) >>
    /\ HandlerDid("JSONResponse") =>
          sent = << Response(201, "application/json", <<"{\"id\": 1}">>, {}) >>
    /\ HandlerDid("dict") =>
          /\ Len(sent) = 1
          /\ sent[1].status = 200
          /\ sent[1].content_type = "application/json"
          /\ sent[1].body = <<"{\"k\": \"v\"}">>
    /\ HandlerDid("str") =>
          /\ Len(sent) = 1
          /\ sent[1].status = 200
          /\ sent[1].content_type = "text/html; charset=utf-8"
          /\ sent[1].body = <<"<p>hello</p>">>

C11_Witness ==
    /\ HandlerDid("dict")
    /\ Len(sent) = 1
    /\ sent[1].content_type = "application/json"
    /\ ~resolution.called

NoErrorHandlers == exception_handlers = <<>> /\ ~internal_error_handler

\* C12 as stated: a handler that returns None gets an empty 204 response
\* sent, and no error handler is invoked.
C12_NoneGives204 ==
    HandlerDid("None") =>
        /\ Len(sent) = 1
        /\ sent[1].status = 204
        /\ sent[1].body = <<>>
        /\ ~resolution.called
        /\ Len(calls) = 1

\* C12 amended: a handler that returns None gets no 204 response: the
\* dispatcher raises TypeError for the unsupported return type, the error
\* resolver is called with it, and with no error handler registered the
\* response sent has status 500.
C12_NoneIsUnsupported ==
    HandlerDid("None") =>
        /\ resolution.called
        /\ resolution.exception.kind = "TypeError"
        /\ Carries(resolution.exception.msg, <<"None">>)
        /\ \A i \in 1..Len(sent) : sent[i].status /= 204
        /\ NoErrorHandlers => Len(sent) = 1 /\ sent[1].status = 500

C12_Witness ==
    /\ HandlerDid("None")
    /\ resolution.called
    /\ NoErrorHandlers
    /\ Len(sent) = 1
    /\ sent[1].status = 500

\* C13 as stated: a handler that returns bytes gets a 200 response with
\* content type application/octet-stream sent, and no error handler is
\* invoked.
C13_BytesGiveOctetStream ==
    HandlerDid("bytes") =>
        /\ Len(sent) = 1
        /\ sent[1].status = 200
        /\ sent[1].content_type = "application/octet-stream"
        /\ ~resolution.called
        /\ Len(calls) = 1

\* C13 amended: a handler that returns bytes gets no octet-stream response:
\* the dispatcher raises TypeError for the unsupported return type, the error
\* resolver is called with it, and with no error handler registered the
\* response sent has status 500.
C13_BytesAreUnsupported ==
    HandlerDid("bytes") =>
        /\ resolution.called
        /\ resolution.exception.kind = "TypeError"
        /\ Carries(resolution.exception.msg, <<"bytes">>)
        /\ \A i \in 1..Len(sent) :
              sent[i].content_type /= "application/octet-stream"
        /\ NoErrorHandlers => Len(sent) = 1 /\ sent[1].status = 500

C13_Witness ==
    /\ HandlerDid("bytes")
    /\ resolution.called
    /\ NoErrorHandlers
    /\ Len(sent) = 1
    /\ sent[1].status = 500

\* The handler returned a value the normalizer does not accept.
ReturnedUnsupported ==
    \E i \in CallsTo("route_handler") :
        calls[i].outcome \notin {"Response", "JSONResponse", "dict", "str",
                                 "raise"}

\* C14: a return value of a shape the normalizer does not accept raises an
\* unsupported-return-type error that goes through the error resolver as a
\* handler-raised exception does: to the per-type handler that matches, else
\* to the internal-error handler, else to the default; with no error handler
\* registered the response is 500.
C14_UnsupportedReturnResolved ==
    ReturnedUnsupported =>
        LET e == resolution.exception
        IN /\ resolution.called
           /\ e.kind = "TypeError"
           /\ Matches(e) =>
                 /\ \E i \in CallsTo("exception_handler") : calls[i].exc = e
                 /\ CallsTo("internal_error_handler") = {}
           /\ (~Matches(e) /\ internal_error_handler) =>
                 \E i \in CallsTo("internal_error_handler") :
                     calls[i].exc = e
           /\ NoErrorHandlers =>
                 /\ Len(calls) = 1
                 /\ Len(sent) = 1
                 /\ sent[1].status = 500

C14_Witness ==
    /\ HandlerDid("bytes")
    /\ resolution.called
    /\ \E i \in CallsTo("exception_handler") :
          /\ calls[i].key = "TypeError"
          /\ calls[i].exc = resolution.exception
    /\ Len(sent) = 1

\* Return values to normalize: those the handlers of the model return, and
\* an empty dict and an empty str.
ReturnValues ==
    { HandlerValue(o) : o \in {"Response", "JSONResponse", "dict", "str"} }
        \cup { Data("dict", <<>>), Data("str", <<>>) }

\* The handler returned a value that was normalized and sent.
Normalized ==
    /\ \E o \in {"Response", "JSONResponse", "dict", "str"} : HandlerDid(o)
    /\ Len(sent) = 1

TheOutcome == calls[CHOOSE i \in CallsTo("route_handler") : TRUE].outcome

\* Normalizing the response sent once more leaves it as it is.
Idempotent ==
    /\ Normalize(Value("Response", sent[1])).exc = NoExc
    /\ Normalize(Value("Response", sent[1])).resp = sent[1]

\* Every return value in shapes with the shape of the value the handler
\* returned gives a response with the status and content type of the one
\* sent.
SameForShape(shapes) ==
    \A v \in ReturnValues :
        (v.shape \in shapes /\ v.shape = HandlerValue(TheOutcome).shape) =>
            /\ Normalize(v).resp.status = sent[1].status
            /\ Normalize(v).resp.content_type = sent[1].content_type

\* C15 as stated: normalization is idempotent, and two return values of the
\* same shape give responses with the same status and content type.
C15_ShapeDetermined ==
    Normalized => Idempotent /\ SameForShape({"Response", "dict", "str"})

\* C15 amended: normalization is idempotent, and two return values that are
\* both a dict or both a str give responses with the same status and content
\* type; a Response keeps its own status and content type.
C15_IdempotentShapeDeterminedConversions ==
    Normalized =>
        /\ Idempotent
        /\ SameForShape({"dict", "str"})
        /\ HandlerValue(TheOutcome).shape = "Response" =>
              sent[1] = HandlerValue(TheOutcome).resp

C15_Witness ==
    /\ Normalized
    /\ HandlerDid("dict")
    /\ sent[1].status = 200


NotFoundResult == Handled /\ ~matched.route /\ matched.allowed = {}

NotFoundHandlerDid(outcome) ==
    \E i \in CallsTo("not_found_handler") : calls[i].outcome = outcome

\* C16: on a not-found match result a registered not-found handler is
\* invoked and its response is sent; if it raises, the response has status
\* 404 in production and in debug mode; no per-type exception handler and no
\* internal-error handler is invoked.
C16_NotFoundHandlerFallback ==
    (NotFoundResult /\ not_found_handler) =>
        /\ Cardinality(CallsTo("not_found_handler")) = 1
        /\ CallsTo("exception_handler") = {}
        /\ CallsTo("internal_error_handler") = {}
        /\ ~resolution.called
        /\ NotFoundHandlerDid("Response") => sent = << UserResponse(404) >>
        /\ NotFoundHandlerDid("raise") =>
              /\ Len(sent) = 1
              /\ sent[1].status = 404

\* C16 amended: on a not-found match result a registered not-found handler
\* is invoked and its response is sent; if it raises, the response is the
\* clean JSON 404 in production and a text 500 response that carries the
\* handler's error message, also in X-Error-Detail, in debug mode; no
\* per-type exception handler and no internal-error handler is invoked.
C16_NotFoundHandlerProductionAwareFallback ==
    (NotFoundResult /\ not_found_handler) =>
        /\ Cardinality(CallsTo("not_found_handler")) = 1
        /\ CallsTo("exception_handler") = {}
        /\ CallsTo("internal_error_handler") = {}
        /\ ~resolution.called
        /\ NotFoundHandlerDid("Response") => sent = << UserResponse(404) >>
        /\ NotFoundHandlerDid("raise") =>
              /\ Len(sent) = 1
              /\ production =>
                    sent[1] = Response(404, "application/json",
                                       ErrorJson("Not found"), {})
              /\ ~production =>
                    /\ sent[1].status = 500
                    /\ sent[1].content_type = "text/plain"
                    /\ sent[1].body = <<"404 handler failed: ">>
                                         \o ErrorHandlerRaised.msg
                    /\ HeaderValues(sent[1], "X-Error-Detail")
                          = {ErrorHandlerRaised.msg}

C16_Witness ==
    /\ NotFoundResult
    /\ NotFoundHandlerDid("raise")
    /\ ~production
    /\ Len(sent) = 1
    /\ sent[1].status = 500

\* C17 as stated: a match invokes the route handler, no route with allowed
\* methods gives 405, no route without allowed methods gives the not-found
\* handling; the route handler is not invoked on the last two, and the
\* not-found handler is not invoked on the first two.
C17_ThreeOutcomes ==
    Handled =>
        /\ matched.route =>
              /\ CallsTo("route_handler") /= {}
              /\ CallsTo("not_found_handler") = {}
        /\ MethodNotAllowedResult =>
              /\ Len(sent) = 1
              /\ sent[1].status = 405
              /\ calls = <<>>
        /\ NotFoundResult =>
              /\ CallsTo("route_handler") = {}
              /\ not_found_handler => CallsTo("not_found_handler") /= {}
              /\ ~not_found_handler =>
                    /\ calls = <<>>
                    /\ Len(sent) = 1
                    /\ sent[1].status = 404

\* C17 amended: as C17, but a match invokes the route handler only when the
\* content type passes; a match with a content type off the allow-list gives
\* 415 and invokes no callback.
C17_FourOutcomes ==
    Handled =>
        /\ (matched.route /\ ~OffAllowList(request.content_type)) =>
              /\ CallsTo("route_handler") /= {}
              /\ CallsTo("not_found_handler") = {}
        /\ (matched.route /\ OffAllowList(request.content_type)) =>
              /\ Len(sent) = 1
              /\ sent[1].status = 415
              /\ calls = <<>>
        /\ MethodNotAllowedResult =>
              /\ Len(sent) = 1
              /\ sent[1].status = 405
              /\ calls = <<>>
        /\ NotFoundResult =>
              /\ CallsTo("route_handler") = {}
              /\ not_found_handler => CallsTo("not_found_handler") /= {}
              /\ ~not_found_handler =>
                    /\ calls = <<>>
                    /\ Len(sent) = 1
                    /\ sent[1].status = 404

C17_Witness ==
    /\ MethodNotAllowedResult
    /\ not_found_handler
    /\ Len(sent) = 1
    /\ sent[1].status = 405

\* C18: once listen has begun no registration changes the route registry or
\* the error-handler registry.
C18_RegistriesFrozenAfterListen ==
    [][listening => UNCHANGED <<exception_handlers, internal_error_handler,
                                not_found_handler, routes>>]_vars

\* C19: every request handled ends with a response sent and no exception
\* leaving the dispatcher, and an exception raised by the handler or by the
\* normalization has passed through the error resolver.
C19_EveryRequestAnswered ==
    Handled =>
        /\ Len(sent) = 1
        /\ raised = NoExc
        /\ (HandlerDid("raise") \/ ReturnedUnsupported) => resolution.called


\* The middleware calls of the request, in the order made.
MiddlewareRun ==
    SelectSeq(calls, LAMBDA c : c.cb = "middleware")

Registered(fn) == CHOOSE e \in Range(global_pre) : e.fn = fn

\* The middleware that wrote key last, among those run.
LastWriter(key) ==
    LET w == { i \in 1..Len(MiddlewareRun) :
                  WrittenKey(MiddlewareRun[i].key) = key }
    IN IF w = {} THEN 0 ELSE CHOOSE i \in w : \A j \in w : j <= i

C28_UnmatchedGets404Or405 ==
    (Handled /\ ~matched.route /\ OffAllowList(request.content_type)) =>
        /\ Len(sent) = 1
        /\ sent[1].status \in {404, 405}

\* C28 amended: the content type is looked at only after a match.  A request
\* with a content type off the allow-list that matches no route never gets
\* the 415 rejection: with allowed methods it gets the 405 answer, else the
\* not-found handling, which is the default 404, or the response of the
\* not-found handler, or the fallback for a not-found handler that failed
\* (404 in production, 500 in debug mode).
C28_GatingOnlyAfterMatch ==
    (Handled /\ ~matched.route /\ OffAllowList(request.content_type)) =>
        /\ Len(sent) = 1
        /\ sent[1] /= UnsupportedMediaType(request.content_type)
        /\ MethodNotAllowedResult =>
              /\ sent[1].status = 405
              /\ calls = <<>>
        /\ (NotFoundResult /\ ~not_found_handler) =>
              /\ sent[1].status = 404
              /\ calls = <<>>
        /\ (NotFoundResult /\ not_found_handler) =>
              /\ Cardinality(CallsTo("not_found_handler")) = 1
              /\ NotFoundHandlerDid("Response") => sent[1] = UserResponse(404)
              /\ ~NotFoundHandlerDid("Response") =>
                    sent[1].status = (IF production THEN 404 ELSE 500)

C28_Witness ==
    /\ MethodNotAllowedResult
    /\ request.content_type = "application/xml"
    /\ Len(sent) = 1
    /\ sent[1].status = 405

\* The pieces of a raw path before its first "?".
UpToQuery(path) ==
    LET marks == { i \in 1..Len(path) : path[i] = "?" }
    IN IF marks = {} THEN path
       ELSE SubSeq(path, 1, (CHOOSE i \in marks : \A j \in marks : i <= j) - 1)

HasQuery(path) == \E i \in 1..Len(path) : path[i] = "?"

\* C30: matching ignores the query string: the match result of the request
\* handled is the result every raw path equal to its path up to the first
\* "?" gets for the same method, with or without a query string; the request
\* built for the handler keeps the raw path with its query string.
C30_MatchIgnoresQueryString ==
    Handled =>
        /\ \A other \in RawPaths :
              UpToQuery(other) = UpToQuery(request.path) =>
                 Match(request.method, BasePath(other)) = matched
        /\ matched = Match(request.method, UpToQuery(request.path))
        /\ (\E r \in routes : r.method = request.method
                               /\ <<r.path>> = UpToQuery(request.path))
              => matched.route

C30_Witness ==
    /\ Handled
    /\ HasQuery(request.path)
    /\ matched.route
    /\ CallsTo("route_handler") /= {}
    /\ \E other \in RawPaths :
          /\ other /= request.path
          /\ UpToQuery(other) = UpToQuery(request.path)

\* C29: at most one response is handed to send for a request, on every path
\* through the dispatcher, also when the send of the try block raises and
\* the exception goes to the error resolver.
C29_AtMostOneSend ==
    Handled => Len(sent) <= 1

\* The segments of the path of the request, its query string left out.
RequestSegments == Split(UpToQuery(request.path))

SegmentFits(seg, text) ==
    CASE seg.kind = "literal" -> seg.text = text
      [] seg.kind = "param" -> (seg.tag = "int" => text \in {"42"})
      [] OTHER -> TRUE

\* The pattern matches the path: segment by segment, a wildcard at the end
\* taking one or more segments.
PatternFits(pattern, segs) ==
    LET n == Len(pattern)
    IN IF n > 0 /\ pattern[n].kind = "wildcard"
       THEN /\ Len(segs) >= n
            /\ \A i \in 1..(n - 1) : SegmentFits(pattern[i], segs[i])
       ELSE /\ Len(segs) = n
            /\ \A i \in 1..n : SegmentFits(pattern[i], segs[i])

\* The registered routes whose pattern matches the path of the request.
Candidates ==
    { r \in routes : PatternFits(PatternSegments(r.path), RequestSegments) }

LiteralOnly(pattern) == \A i \in 1..Len(pattern) : pattern[i].kind = "literal"

KindOrder(seg) ==
    CASE seg.kind = "literal" -> 0
      [] seg.kind = "param" /\ seg.tag = "int" -> 1
      [] seg.kind = "param" -> 2
      [] OTHER -> 3

\* Pattern a is reached before pattern b by a walk that tries literal, then
\* parameter, then wildcard children.
Precedes(a, b) ==
    \E i \in 1..Len(a) :
        /\ i <= Len(b)
        /\ \A j \in 1..(i - 1) : a[j] = b[j]
        /\ KindOrder(a[i]) < KindOrder(b[i])

\* C24: a request whose path equals a registered pattern of literal segments
\* only is matched to that route for its method, whatever overlapping
\* parameter or wildcard patterns are registered, and in whatever order they
\* were inserted; in general the route matched is the first in the order
\* literal, parameter, wildcard among the matching routes of the method.
C24_LiteralPrecedence ==
    Handled =>
        /\ \A r \in routes :
              (/\ r.method = request.method
               /\ LiteralOnly(PatternSegments(r.path))
               /\ PatternFits(PatternSegments(r.path), RequestSegments)) =>
                  /\ matched.route
                  /\ matched.entry = r
        /\ matched.route =>
              /\ matched.entry \in Candidates
              /\ matched.entry.method = request.method
              /\ \A r \in Candidates :
                    r.method = request.method =>
                       ~Precedes(PatternSegments(r.path),
                                 PatternSegments(matched.entry.path))

C24_Witness ==
    /\ Handled
    /\ request.path = <<"/users/me">>
    /\ matched.route
    /\ matched.entry.path = "/users/me"
    /\ \E r \in Candidates :
          /\ r.method = request.method
          /\ r.path \in {"/users/{id}", "/users/*rest"}
    /\ CallsTo("route_handler") /= {}

SameKey(r, method, path) == r.method = method /\ r.path = path

UniqueKeys ==
    \A r, q \in routes : SameKey(r, q.method, q.path) => r = q

\* C26: in every state the registry holds at most one route for a (method,
\* pattern); a registration of a (method, pattern) that has a route fails
\* with DuplicateRoute and leaves the routes as they are when overwrite is
\* false, and puts its handler in the place of the old route when overwrite
\* is true; a registration of a new (method, pattern) adds the route.
C26_RouteUniqueness ==
    /\ [] UniqueKeys
    /\ [][registration' /= NoRegistration =>
            LET a == registration'
                new == [method |-> a.method, path |-> a.path,
                        handler |-> a.handler]
                taken == { r \in routes : SameKey(r, a.method, a.path) }
            IN IF taken /= {} /\ ~a.overwrite
               THEN a.error = "DuplicateRoute" /\ routes' = routes
               ELSE /\ a.error = "None"
                    /\ routes' = (routes \ taken) \cup {new}
                    /\ new \in routes']_vars

\* A second registration of a (method, pattern) with another handler and
\* without overwrite has failed: the route still has the first handler.
C26_Witness ==
    /\ registration.error = "DuplicateRoute"
    /\ ~registration.overwrite
    /\ \E r \in routes :
          /\ SameKey(r, registration.method, registration.path)
          /\ r.handler /= registration.handler

\* C27: with GET /users/{id:int} the only registration, GET /users/42 is
\* matched with the path parameters {id: "42"}, which the request carries
\* when the handler runs; GET /users/abc is answered 404; POST /users/42 is
\* answered 405 with the header Allow: GET.
C27_TypedParameterScenario ==
    (/\ Handled
     /\ \E h \in Handlers :
           routes = {[method |-> "GET", path |-> "/users/{id:int}",
                      handler |-> h]}) =>
        /\ (request.method = "GET" /\ RequestSegments = <<"users", "42">>) =>
              /\ matched.route
              /\ matched.params = {<<"id", <<"42">>>>}
              /\ request.path_params = {<<"id", <<"42">>>>}
              /\ Len(calls) >= 1
              /\ calls[1].cb = "route_handler"
        /\ (request.method = "GET" /\ RequestSegments = <<"users", "abc">>) =>
              /\ calls = <<>>
              /\ Len(sent) = 1
              /\ sent[1].status = 404
        /\ (request.method = "POST" /\ RequestSegments = <<"users", "42">>) =>
              /\ calls = <<>>
              /\ Len(sent) = 1
              /\ sent[1].status = 405
              /\ HeaderValues(sent[1], "Allow") = {<<"GET">>}

\* The pre-route middleware calls of the request, global and per-route.
PreCalls == CallsTo("middleware") \cup CallsTo("route_middleware")

ShortCircuited == \E i \in PreCalls : calls[i].outcome = "Response"

\* The functions of the calls to cb, in the order called.
Ran(cb) ==
    LET made == SelectSeq(calls, LAMBDA c : c.cb = cb)
    IN [i \in 1..Len(made) |-> made[i].key]

C23_ContextNotShared ==
    \A w \in Workers :
        LET ctx == contexts[threads[w].object]
        IN /\ threads[w].pc = "built" => ctx = EmptyContext
           /\ threads[w].pc \in {"written", "read"} =>
                 \A k \in ContextKeys : ctx[k] \in {"unset", RequestTag(w)}
           /\ threads[w].pc = "read" => threads[w].seen = RequestTag(w)
           /\ \A v \in Workers :
                 (v /= w /\ threads[v].pc /= "idle" /\ threads[w].pc /= "idle")
                    => threads[v].object /= threads[w].object

\* Two requests under way at once, each with the value of its own.
C23_Witness ==
    /\ threads[1].pc = "read"
    /\ threads[1].seen = "r1"
    /\ threads[2].pc = "written"
    /\ \E k \in ContextKeys : contexts[threads[2].object][k] = "r2"

\* The same request was answered by two applications: by the first (kept
\* in twin) and by the second, which differs from it in production only.
AnsweredByBoth == twin /= NoTwin /\ request /= NoRequest

\* The user callbacks did the same for both applications.
SameBehaviour ==
    \A i \in DOMAIN calls, j \in DOMAIN twin.calls :
        (calls[i].cb = twin.calls[j].cb /\ calls[i].key = twin.calls[j].key)
            => calls[i].outcome = twin.calls[j].outcome

Statuses(responses) ==
    [i \in DOMAIN responses |-> responses[i].status]

\* The last callback invoked returned; it did not raise.
LastCallbackReturned ==
    calls /= <<>> /\ calls[Len(calls)].outcome /= "raise"

\* The registered not-found handler was invoked and gave no Response that
\* could be sent.
NotFoundHandlerFailed ==
    \E i \in CallsTo("not_found_handler") : calls[i].outcome /= "Response"

\* The status the fallback for a failed not-found handler has.
FallbackStatus(flag) == IF flag THEN <<404>> ELSE <<500>>

\* C31 as stated: with the same registrations and the same request, the two
\* applications invoke the same callbacks in the same order and send the
\* same status code, and send the same response when the last callback
\* invoked returned without raising.
C31_ProductionOnlyShapesErrors ==
    (AnsweredByBoth /\ SameBehaviour) =>
        /\ calls = twin.calls
        /\ Statuses(sent) = Statuses(twin.sent)
        /\ LastCallbackReturned => sent = twin.sent

\* C31, amended: the two applications invoke the same callbacks in the same
\* order and end alike (the same exception leaves, as many responses are
\* sent); a response that a user callback returned is the same response in
\* both; the status code sent is the same in both unless a registered
\* not-found handler failed, and then it is 404 in production and 500 in
\* debug mode.
C31_ProductionShapesFrameworkResponses ==
    (AnsweredByBoth /\ SameBehaviour) =>
        /\ calls = twin.calls
        /\ raised = twin.raised
        /\ Len(sent) = Len(twin.sent)
        /\ (Len(sent) = 1 /\ ~FrameworkBuilt) => sent = twin.sent
        /\ IF NotFoundHandlerFailed
           THEN /\ Statuses(sent) = FallbackStatus(production)
                /\ Statuses(twin.sent) = FallbackStatus(twin.production)
           ELSE Statuses(sent) = Statuses(twin.sent)

\* Both applications had a handler raise and an error handler answer: the
\* responses are the same, though production differs.
C31_Witness ==
    /\ AnsweredByBoth
    /\ SameBehaviour
    /\ production /= twin.production
    /\ Len(calls) = 2
    /\ calls[1].outcome = "raise"
    /\ calls[2].outcome = "Response"
    /\ Len(sent) = 1
    /\ sent = twin.sent

====
